---- MODULE Spec2Model ----
(***************************************************************************)
(* rxn-availability: the matcher contract (SmilesAvailability), its        *)
(* variants, the AvailabilityCombiner and the IsAvailable orchestrator.    *)
(*                                                                         *)
(* A SMILES string is a sequence of one-character strings.  A generator    *)
(* (find_matches) is modelled by the sequence of steps its body performs   *)
(* when drained; a consumer that stops early (next, any) executes only the *)
(* prefix of that sequence up to the yield it stops at.                    *)
(***************************************************************************)
EXTENDS Integers, Sequences, FiniteSets, TLC

VARIABLES
    heap,       \* the matcher objects, by identity
    isavail,    \* the IsAvailable object's own fields (orchestrator)
    call        \* the call in progress or last completed, with what it observed

vars == <<heap, isavail, call>>

---------------------------------------------------------------------------
(* Bounds *)

MaxSources == 2
MaxExcluded == 2
MaxPrices == 3
MaxGenerators == 2

---------------------------------------------------------------------------
(* SMILES strings *)

C == <<"C">>
CO == <<"C", "O">>
OC == <<"O", "C">>
C_O == <<"C", ".", "O">>
O_C == <<"O", ".", "C">>
CtO == <<"C", "~", "O">>
invalid == <<"X">>

NoSmiles == <<>>

\* s[i..] starts with p
StartsAt(s, p, i) ==
    /\ i + Len(p) - 1 <= Len(s)
    /\ \A j \in 1..Len(p) : s[i + j - 1] = p[j]

---------------------------------------------------------------------------
(* Numbers: w + f/2, so that a non-integer threshold or price can be told *)
(* from its integer part.  "NA" prices are not numbers.                    *)

Num(w, f) == [num |-> TRUE, w |-> w, f |-> f]
NA == [num |-> FALSE, w |-> 0, f |-> 0]
NumLT(a, b) == a.w < b.w \/ (a.w = b.w /\ a.f < b.f)

\* Python int() of a non-negative number: truncation
int(x) == Num(x.w, 0)

MAX_THRESHOLD == 1000

---------------------------------------------------------------------------
(* External collaborators *)

\* rxn.chemutils canonicalization, on the strings of the model: raises on an
\* invalid SMILES, rewrites a non-canonical form, keeps "~" as it is.
canonicalize_smiles(smiles) ==
    IF \E i \in 1..Len(smiles) : smiles[i] = "X"
    THEN [ok |-> FALSE, value |-> NoSmiles]
    ELSE [ok |-> TRUE,
          value |-> CASE smiles = OC -> CO
                      [] smiles = O_C -> C_O
                      [] OTHER -> smiles]

\* str.replace("~", ".")
replace_tilde(smiles) ==
    [i \in 1..Len(smiles) |-> IF smiles[i] = "~" THEN "." ELSE smiles[i]]

wrapped_standardizer(smiles) == canonicalize_smiles(replace_tilde(smiles))

\* self.standardizer(smiles): the result, or the exception
standardizer(f, smiles) ==
    CASE f = "canonicalize_smiles" -> canonicalize_smiles(smiles)
      [] f = "wrapped_standardizer" -> wrapped_standardizer(smiles)

\* re.Pattern.search for an escaped literal pattern
search(pattern, smiles) ==
    \E i \in 1..Len(smiles) : StartsAt(smiles, pattern, i)

\* rdkit MolFromSmiles: None for an invalid SMILES
MolFromSmiles(smiles) ==
    /\ smiles # NoSmiles
    /\ \A i \in 1..Len(smiles) : smiles[i] # "X"

\* rdkit HasSubstructMatch for a one-atom SMARTS
HasSubstructMatch(smiles, pattern) ==
    \E i \in 1..Len(smiles) : smiles[i] = pattern[1]

\* The documents of a database's collection for a SMILES: their prices
query_by_smi(database, smi) ==
    CASE database = "emolecules" /\ smi = CO -> <<NA, Num(2, 0)>>
      [] database = "emolecules" /\ smi = C_O -> <<NA>>
      [] database = "zinc" /\ smi = CO -> <<Num(2, 1)>>
      [] database = "zinc" /\ smi = C_O -> <<Num(1, 0)>>
      [] OTHER -> <<>>

---------------------------------------------------------------------------
(* databases.py *)

RECURSIVE min(_)
min(prices) ==
    IF Len(prices) = 1 THEN prices[1]
    ELSE LET m == min(Tail(prices))
         IN  IF NumLT(m, prices[1]) THEN m ELSE prices[1]

\* Faulty variant: a price equal to the threshold counts as under it
_availability_from_db_results_not_strict(prices, pricing_threshold) ==
    IF Len(prices) = 0 THEN FALSE
    ELSE IF pricing_threshold = Num(0, 0)
            \/ pricing_threshold = Num(MAX_THRESHOLD, 0) THEN TRUE
    ELSE LET valid_prices == SelectSeq(prices, LAMBDA p : p.num)
         IN  IF Len(valid_prices) = 0 THEN FALSE
             ELSE ~NumLT(pricing_threshold, min(valid_prices))

_availability_from_db_results(prices, pricing_threshold) ==
    IF Len(prices) = 0 THEN FALSE
    ELSE IF pricing_threshold = Num(0, 0)
            \/ pricing_threshold = Num(MAX_THRESHOLD, 0) THEN TRUE
    ELSE LET valid_prices == SelectSeq(prices, LAMBDA p : p.num)
         IN  IF Len(valid_prices) = 0 THEN FALSE
             ELSE NumLT(min(valid_prices), pricing_threshold)

availability(database, smi, pricing_threshold) ==
    _availability_from_db_results(query_by_smi(database, smi), pricing_threshold)

---------------------------------------------------------------------------
(* Matcher objects.  All share one record shape; a class uses its fields. *)

Matcher(cls) ==
    [cls |-> cls, standardizer |-> "None",
     available_compounds |-> {}, available_regexes |-> <<>>,
     available_smarts |-> <<>>,
     database |-> "None", pricing_threshold |-> Num(0, 0),
     sources |-> <<>>, excluded_sources |-> <<>>,
     add_source_to_match_info_key |-> "None"]

AvailabilityFromSmiles(compounds, std) ==
    [Matcher("AvailabilityFromSmiles") EXCEPT
        !.available_compounds = compounds, !.standardizer = std]

AvailabilityFromRegex(regexes, std) ==
    [Matcher("AvailabilityFromRegex") EXCEPT
        !.available_regexes = regexes, !.standardizer = std]

AvailabilityFromSmarts(smarts, std) ==
    [Matcher("AvailabilityFromSmarts") EXCEPT
        !.available_smarts = smarts, !.standardizer = std]

AvailabilityFromDatabase(database, std, pricing_threshold) ==
    [Matcher("AvailabilityFromDatabase") EXCEPT
        !.database = database, !.standardizer = std,
        !.pricing_threshold = int(pricing_threshold)]

AvailabilityCombiner(sources, key, excluded_sources, std) ==
    [Matcher("AvailabilityCombiner") EXCEPT
        !.sources = sources, !.add_source_to_match_info_key = key,
        !.excluded_sources = excluded_sources, !.standardizer = std]

\* A plain callable Callable[[str], bool] of excluded_sources: true on a set
function(trueOn) ==
    [Matcher("function") EXCEPT !.available_compounds = trueOn]

---------------------------------------------------------------------------
(* Match records and the steps of a generator *)

AvailabilityMatch(details) == [details |-> details, info |-> <<>>]

\* match.info[key] = source
SetInfo(match, key, source) ==
    [match EXCEPT !.info =
        SelectSeq(match.info, LAMBDA kv : kv[1] # key) \o <<<<key, source>>>>]

\* A step of a generator body: something called (ev, by/on who, at index k),
\* or a yield carrying its match.
Step(ev, who, k) ==
    [ev |-> ev, who |-> who, k |-> k, thr |-> Num(0, 0), match |-> <<>>]
Yield(who, k, match) ==
    [ev |-> "yield", who |-> who, k |-> k, thr |-> Num(0, 0), match |-> <<match>>]

IsYield(step) == step.ev = "yield"

\* The index of the first yield after position pos (0: none)
FirstYieldAfter(steps, pos) ==
    LET is == {i \in (pos + 1)..Len(steps) : IsYield(steps[i])}
    IN  IF is = {} THEN 0 ELSE CHOOSE i \in is : \A j \in is : i <= j

\* What one next() on the generator executes from position pos
NextStop(steps, pos) ==
    LET i == FirstYieldAfter(steps, pos)
    IN  IF i = 0 THEN Len(steps) ELSE i

\* The steps of a generator run inside a call that consumes its yields itself
\* (any): its yields are not yields of the calling generator
Consumed(steps) ==
    [i \in 1..Len(steps) |->
        IF IsYield(steps[i]) THEN [steps[i] EXCEPT !.ev = "consumed"] ELSE steps[i]]

Yields(steps) == SelectSeq(steps, IsYield)
Matches(steps) == [i \in 1..Len(Yields(steps)) |-> Yields(steps)[i].match[1]]

---------------------------------------------------------------------------
(* The matcher variants: the steps of _find_matches on a standardized SMILES *)

AvailabilityFromSmiles_find_matches(h, self, smiles) ==
    IF smiles \in h[self].available_compounds
    THEN <<Yield(self, 1, AvailabilityMatch(<<"Matching exact SMILES", smiles>>))>>
    ELSE <<>>

\* Faulty variant: the loop ends at the first pattern that matches
RECURSIVE regex_loop_first_only(_, _, _, _)
regex_loop_first_only(h, self, smiles, k) ==
    IF k > Len(h[self].available_regexes) THEN <<>>
    ELSE LET pattern == h[self].available_regexes[k]
         IN  <<Step("search", self, k)>>
             \o (IF search(pattern, smiles)
                 THEN <<Yield(self, k, AvailabilityMatch(<<"Matching regex", pattern>>))>>
                 ELSE regex_loop_first_only(h, self, smiles, k + 1))

RECURSIVE regex_loop(_, _, _, _)
regex_loop(h, self, smiles, k) ==
    IF k > Len(h[self].available_regexes) THEN <<>>
    ELSE LET pattern == h[self].available_regexes[k]
         IN  <<Step("search", self, k)>>
             \o (IF search(pattern, smiles)
                 THEN <<Yield(self, k, AvailabilityMatch(<<"Matching regex", pattern>>))>>
                 ELSE <<>>)
             \o regex_loop(h, self, smiles, k + 1)

AvailabilityFromRegex_find_matches(h, self, smiles) ==
    regex_loop(h, self, smiles, 1)

RECURSIVE smarts_loop(_, _, _, _)
smarts_loop(h, self, smiles, k) ==
    IF k > Len(h[self].available_smarts) THEN <<>>
    ELSE LET smarts == h[self].available_smarts[k]
         IN  <<Step("HasSubstructMatch", self, k)>>
             \o (IF HasSubstructMatch(smiles, smarts)
                 THEN <<Yield(self, k, AvailabilityMatch(<<"Matching SMARTS", smarts>>))>>
                 ELSE <<>>)
             \o smarts_loop(h, self, smiles, k + 1)

AvailabilityFromSmarts_find_matches(h, self, smiles) ==
    <<Step("MolFromSmiles", self, 0)>>
    \o (IF ~MolFromSmiles(smiles) THEN <<>> ELSE smarts_loop(h, self, smiles, 1))

AvailabilityFromDatabase_find_matches(h, self, smiles) ==
    <<[Step("availability", self, 0) EXCEPT !.thr = h[self].pricing_threshold]>>
    \o (IF availability(h[self].database, smiles, h[self].pricing_threshold)
        THEN <<Yield(self, 1, AvailabilityMatch(<<"Found in the database", NoSmiles>>))>>
        ELSE <<>>)

---------------------------------------------------------------------------
(* SmilesAvailability (base class) and AvailabilityCombiner *)

RECURSIVE find_matches(_, _, _), _find_matches(_, _, _)
RECURSIVE any_excluded(_, _, _, _), sources_loop(_, _, _, _)

\* What any(True for _ in steps) / next(steps, None) executes of a fresh generator
UntilFirstYield(steps) == SubSeq(steps, 1, NextStop(steps, 0))

\* Faulty variant: len(list(self.find_matches(smiles))) > 0
is_available_drains(h, self, smiles) ==
    LET steps == find_matches(h, self, smiles)
    IN  [value |-> FirstYieldAfter(steps, 0) # 0, log |-> steps]

\* SmilesAvailability.is_available: [value, log]
is_available(h, self, smiles) ==
    LET steps == find_matches(h, self, smiles)
    IN  [value |-> FirstYieldAfter(steps, 0) # 0, log |-> UntilFirstYield(steps)]

\* Faulty variant: the generator is drained and its last record is returned
first_match_takes_last(h, self, smiles) ==
    LET steps == find_matches(h, self, smiles)
        all == Yields(steps)
    IN  [value |-> IF all = <<>> THEN <<>> ELSE all[Len(all)].match,
         log |-> steps]

\* SmilesAvailability.first_match: [value: <<>> for None or <<match>>, log]
first_match(h, self, smiles) ==
    LET steps == find_matches(h, self, smiles)
        i == FirstYieldAfter(steps, 0)
    IN  [value |-> IF i = 0 THEN <<>> ELSE steps[i].match,
         log |-> UntilFirstYield(steps)]

\* Faulty variant: an exclusion matcher whose standardizer raises counts as excluding
excluded_fails_closed(h, ex, smiles) ==
    IF h[ex].cls = "function"
    THEN [value |-> smiles \in h[ex].available_compounds, log |-> <<>>]
    ELSE LET r == is_available(h, ex, smiles)
             failed == /\ h[ex].standardizer # "None"
                       /\ ~standardizer(h[ex].standardizer, smiles).ok
         IN  [value |-> r.value \/ failed, log |-> Consumed(r.log)]

\* excluded(smiles) for the entry k of excluded_sources: a Matcher is called
\* through __call__ (is_available), a plain callable directly.
excluded(h, ex, smiles) ==
    IF h[ex].cls = "function"
    THEN [value |-> smiles \in h[ex].available_compounds, log |-> <<>>]
    ELSE LET r == is_available(h, ex, smiles)
         IN  [value |-> r.value, log |-> Consumed(r.log)]

\* Faulty variant: only the first entry of excluded_sources is evaluated
any_excluded_first_only(h, self, smiles, k) ==
    IF k > 1 \/ k > Len(h[self].excluded_sources) THEN [value |-> FALSE, log |-> <<>>]
    ELSE LET ex == h[self].excluded_sources[k]
             r == excluded(h, ex, smiles)
         IN  [value |-> r.value, log |-> <<Step("excluded", ex, k)>> \o r.log]

\* Faulty variant: any([excluded(smiles) for excluded in self.excluded_sources]),
\* every entry is evaluated before any() looks at the results
RECURSIVE any_excluded_no_short_circuit(_, _, _, _)
any_excluded_no_short_circuit(h, self, smiles, k) ==
    IF k > Len(h[self].excluded_sources) THEN [value |-> FALSE, log |-> <<>>]
    ELSE LET ex == h[self].excluded_sources[k]
             r == excluded(h, ex, smiles)
             rest == any_excluded_no_short_circuit(h, self, smiles, k + 1)
         IN  [value |-> r.value \/ rest.value,
              log |-> <<Step("excluded", ex, k)>> \o r.log \o rest.log]

\* any(excluded(smiles) for excluded in self.excluded_sources), from entry k
any_excluded(h, self, smiles, k) ==
    IF k > Len(h[self].excluded_sources) THEN [value |-> FALSE, log |-> <<>>]
    ELSE LET ex == h[self].excluded_sources[k]
             r == excluded(h, ex, smiles)
             here == <<Step("excluded", ex, k)>> \o r.log
         IN  IF r.value THEN [value |-> TRUE, log |-> here]
             ELSE LET rest == any_excluded(h, self, smiles, k + 1)
                  IN  [value |-> rest.value, log |-> here \o rest.log]

\* Faulty variant: a provenance the source has already put under the key is kept
Annotate_keeps_first(h, self, source, j, steps) ==
    [i \in 1..Len(steps) |->
        IF ~IsYield(steps[i]) THEN steps[i]
        ELSE Yield(self, j,
                   IF h[self].add_source_to_match_info_key # "None"
                      /\ \A n \in 1..Len(steps[i].match[1].info) :
                            steps[i].match[1].info[n][1]
                                # h[self].add_source_to_match_info_key
                   THEN SetInfo(steps[i].match[1],
                                h[self].add_source_to_match_info_key, source)
                   ELSE steps[i].match[1])]

\* for match in source.find_matches(smiles): annotate and yield
Annotate(h, self, source, j, steps) ==
    [i \in 1..Len(steps) |->
        IF ~IsYield(steps[i]) THEN steps[i]
        ELSE Yield(self, j,
                   IF h[self].add_source_to_match_info_key # "None"
                   THEN SetInfo(steps[i].match[1],
                                h[self].add_source_to_match_info_key, source)
                   ELSE steps[i].match[1])]

\* Faulty variant: the sources are walked from the end of the list
RECURSIVE sources_loop_reversed(_, _, _, _)
sources_loop_reversed(h, self, smiles, j) ==
    IF j > Len(h[self].sources) THEN <<>>
    ELSE LET jr == Len(h[self].sources) + 1 - j
             source == h[self].sources[jr]
         IN  <<Step("find_matches", source, jr)>>
             \o Annotate(h, self, source, jr, find_matches(h, source, smiles))
             \o sources_loop_reversed(h, self, smiles, j + 1)

\* for source in self.sources, from entry j
sources_loop(h, self, smiles, j) ==
    IF j > Len(h[self].sources) THEN <<>>
    ELSE LET source == h[self].sources[j]
         IN  <<Step("find_matches", source, j)>>
             \o Annotate(h, self, source, j, find_matches(h, source, smiles))
             \o sources_loop(h, self, smiles, j + 1)

\* Faulty variant: the exclusion gate is evaluated but its return is forgotten
AvailabilityCombiner_find_matches_no_return(h, self, smiles) ==
    any_excluded(h, self, smiles, 1).log \o sources_loop(h, self, smiles, 1)

AvailabilityCombiner_find_matches(h, self, smiles) ==
    LET gate == any_excluded(h, self, smiles, 1)
    IN  gate.log \o (IF gate.value THEN <<>> ELSE sources_loop(h, self, smiles, 1))

_find_matches(h, self, smiles) ==
    <<Step("_find_matches", self, 0)>>
    \o CASE h[self].cls = "AvailabilityFromSmiles" ->
                AvailabilityFromSmiles_find_matches(h, self, smiles)
         [] h[self].cls = "AvailabilityFromRegex" ->
                AvailabilityFromRegex_find_matches(h, self, smiles)
         [] h[self].cls = "AvailabilityFromSmarts" ->
                AvailabilityFromSmarts_find_matches(h, self, smiles)
         [] h[self].cls = "AvailabilityFromDatabase" ->
                AvailabilityFromDatabase_find_matches(h, self, smiles)
         [] h[self].cls = "AvailabilityCombiner" ->
                AvailabilityCombiner_find_matches(h, self, smiles)

\* Faulty variant: the exception of the standardizer is swallowed and the matching
\* goes on with the SMILES as given
find_matches_goes_on(h, self, smiles) ==
    IF h[self].standardizer # "None"
    THEN LET r == standardizer(h[self].standardizer, smiles)
         IN  <<Step("standardizer", self, 0)>>
             \o _find_matches(h, self, IF r.ok THEN r.value ELSE smiles)
    ELSE _find_matches(h, self, smiles)

\* SmilesAvailability.find_matches: standardize (an exception ends the
\* generator with nothing yielded), then the variant's _find_matches
find_matches(h, self, smiles) ==
    IF h[self].standardizer # "None"
    THEN LET r == standardizer(h[self].standardizer, smiles)
         IN  <<Step("standardizer", self, 0)>>
             \o (IF r.ok THEN _find_matches(h, self, r.value) ELSE <<>>)
    ELSE _find_matches(h, self, smiles)

---------------------------------------------------------------------------
(* The call record: what the caller asked, got, and what was executed *)

NoCall ==
    [op |-> "None", self |-> "None", smiles |-> NoSmiles,
     log |-> <<>>,          \* the steps executed so far, in order
     out |-> <<>>,          \* the matches handed to the caller so far
     value |-> FALSE,       \* the boolean returned (is_available, __call__, ...)
     done |-> TRUE,         \* no generator is left suspended
     raised |-> FALSE,      \* an exception reached the caller
     category |-> "None",   \* the key of AVAILABILITY_METADATA returned
     prices |-> <<>>,       \* the prices a database call decided on
     pricing_threshold |-> Num(0, 0),   \* the threshold of a database call
     gens |-> <<>>]         \* the generators of find_matches alive at once

IsAvailable0 ==
    [are_materials_exclusive |-> FALSE, _pricing_threshold |-> Num(0, 0),
     standardization_function |-> "None", from_database |-> <<>>]

---------------------------------------------------------------------------
(* Specification of the matcher library: leaf matchers and one combiner,  *)
(* as in tests/test_availability_combiner.py                               *)

Smiles == {C, CO, OC, invalid}

SourcePool == {"exact", "regex", "smarts", "inner"}
ExcludedPool == {"ex_exact", "ex_smarts", "ex_lambda"}
CombinerTargets == SourcePool \cup {"ex_exact", "ex_smarts", "database", "combined"}

\* The sequences of at most n distinct elements of S
RECURSIVE DistinctSeqs(_, _)
DistinctSeqs(S, n) ==
    IF n = 0 THEN {<<>>}
    ELSE LET shorter == DistinctSeqs(S, n - 1)
         IN  shorter \cup
             UNION {{Append(q, x) : x \in S \ {q[i] : i \in 1..Len(q)}} :
                        q \in {r \in shorter : Len(r) = n - 1}}

Leaves ==
    [id \in {"exact", "regex", "smarts", "database"} \cup ExcludedPool |->
        CASE id = "exact" -> AvailabilityFromSmiles({C, CO}, "canonicalize_smiles")
          [] id = "regex" -> AvailabilityFromRegex(<<<<"O">>, CO>>, "None")
          [] id = "smarts" -> AvailabilityFromSmarts(<<<<"O">>, <<"C">>>>, "None")
          [] id = "ex_exact" -> AvailabilityFromSmiles({CO, invalid}, "canonicalize_smiles")
          [] id = "ex_smarts" -> AvailabilityFromSmarts(<<<<"O">>>>, "None")
          [] id = "ex_lambda" -> function({C})
          [] id = "database" ->
                AvailabilityFromDatabase("zinc", "canonicalize_smiles", Num(0, 0))]

\* A combiner used as a source of another one: it annotates its matches itself
Inner ==
    [id \in {"inner_regex", "inner"} |->
        CASE id = "inner_regex" -> AvailabilityFromRegex(<<<<"C">>, <<"O">>, <<"X">>>>, "None")
          [] id = "inner" ->
                AvailabilityCombiner(<<"inner_regex">>, "dummy_key", <<>>, "None")]

InitCombiner ==
    /\ \E sources \in DistinctSeqs(SourcePool, MaxSources),
          excluded_sources \in DistinctSeqs(ExcludedPool, MaxExcluded),
          key \in {"None", "dummy_key"},
          std \in {"None", "canonicalize_smiles"} :
            heap = Leaves @@ Inner @@
                   ("combined" :>
                        AvailabilityCombiner(sources, key, excluded_sources, std))
    /\ isavail = IsAvailable0
    /\ call = NoCall

\* matcher.is_available(smiles), or matcher(smiles)
Call_is_available(self, smiles) ==
    LET r == is_available(heap, self, smiles)
    IN  /\ call.op = "None"
        /\ self \in DOMAIN heap
        /\ call' = [NoCall EXCEPT !.op = "is_available", !.self = self,
                                  !.smiles = smiles, !.log = r.log,
                                  !.value = r.value]
        /\ UNCHANGED <<heap, isavail>>

\* matcher.first_match(smiles)
Call_first_match(self, smiles) ==
    LET r == first_match(heap, self, smiles)
    IN  /\ call.op = "None"
        /\ self \in DOMAIN heap
        /\ call' = [NoCall EXCEPT !.op = "first_match", !.self = self,
                                  !.smiles = smiles, !.log = r.log,
                                  !.out = r.value]
        /\ UNCHANGED <<heap, isavail>>

\* g = matcher.find_matches(smiles): a generator, nothing executed yet
Call_find_matches(self, smiles) ==
    /\ call.op = "None"
    /\ self \in DOMAIN heap
    /\ call' = [NoCall EXCEPT !.op = "find_matches", !.self = self,
                              !.smiles = smiles, !.done = FALSE]
    /\ UNCHANGED <<heap, isavail>>

\* next(g): run to the next yield, or to the end (StopIteration)
Next_find_matches ==
    /\ call.op = "find_matches"
    /\ ~call.done
    /\ LET steps == find_matches(heap, call.self, call.smiles)
           pos == Len(call.log)
           stop == NextStop(steps, pos)
           yielded == FirstYieldAfter(steps, pos) # 0
       IN  call' = [call EXCEPT
                        !.log = SubSeq(steps, 1, stop),
                        !.out = IF yielded THEN @ \o steps[stop].match ELSE @,
                        !.done = ~yielded]
    /\ UNCHANGED <<heap, isavail>>

\* The caller is done with the result (or drops the generator)
Discard ==
    /\ call.op # "None"
    /\ call' = NoCall
    /\ UNCHANGED <<heap, isavail>>

NextCombiner ==
    \/ \E self \in CombinerTargets, smiles \in Smiles : Call_is_available(self, smiles)
    \/ \E self \in CombinerTargets, smiles \in Smiles : Call_first_match(self, smiles)
    \/ \E self \in CombinerTargets, smiles \in Smiles : Call_find_matches(self, smiles)
    \/ Next_find_matches
    \/ Discard

SpecCombiner == InitCombiner /\ [][NextCombiner]_vars

---------------------------------------------------------------------------
(* Specification of several find_matches generators alive at once, on the *)
(* same or on different matchers, consumed in any interleaving             *)

\* A generator object of find_matches: its arguments, what it has executed and
\* handed out, and how the consumer scheduled it with respect to the others
Generator(self, smiles) ==
    [self |-> self, smiles |-> smiles, log |-> <<>>, out |-> <<>>, done |-> FALSE,
     overtaken |-> FALSE,     \* another generator ran since it was suspended
     interleaved |-> FALSE]   \* it was resumed after another generator ran

InterleavedTargets == {"combined", "regex", "database"}
InterleavedSmiles == {CO, OC}

InitInterleaved ==
    /\ \E sources \in {<<"exact", "regex">>, <<"inner", "regex">>} :
            heap = Leaves @@ Inner @@
                   ("combined" :>
                        AvailabilityCombiner(sources, "dummy_key", <<"ex_lambda">>,
                                             "canonicalize_smiles"))
    /\ isavail = IsAvailable0
    /\ call = NoCall

\* g = matcher.find_matches(smiles), while other generators may be suspended
Start_find_matches(self, smiles) ==
    /\ call.op \in {"None", "generators"}
    /\ self \in DOMAIN heap
    /\ Len(call.gens) < MaxGenerators
    /\ call' = [call EXCEPT !.op = "generators",
                            !.gens = Append(@, Generator(self, smiles))]
    /\ UNCHANGED <<heap, isavail>>

\* The generators after next() on the g-th of them
Resumed(g) ==
    LET gen == call.gens[g]
        steps == find_matches(heap, gen.self, gen.smiles)
        pos == Len(gen.log)
        stop == NextStop(steps, pos)
        yielded == FirstYieldAfter(steps, pos) # 0
    IN  [i \in 1..Len(call.gens) |->
            IF i = g
            THEN [gen EXCEPT
                    !.log = SubSeq(steps, 1, stop),
                    !.out = IF yielded THEN @ \o steps[stop].match ELSE @,
                    !.done = ~yielded,
                    !.overtaken = FALSE,
                    !.interleaved = @ \/ gen.overtaken]
            ELSE [call.gens[i] EXCEPT
                    !.overtaken = @ \/ (call.gens[i].log # <<>> /\ ~call.gens[i].done)]]

\* Faulty variant: the combiner takes the sources off its own list as it goes
Resume_find_matches_pops_sources(g) ==
    /\ call.op = "generators"
    /\ g \in 1..Len(call.gens)
    /\ ~call.gens[g].done
    /\ call' = [call EXCEPT !.gens = Resumed(g)]
    /\ heap' = [heap EXCEPT ![call.gens[g].self].sources =
                    IF @ = <<>> THEN @ ELSE Tail(@)]
    /\ UNCHANGED isavail

\* next(g) on one of the generators: its body runs to its next yield or to its
\* end; it reads the matchers and assigns none of their fields
Resume_find_matches(g) ==
    /\ call.op = "generators"
    /\ g \in 1..Len(call.gens)
    /\ ~call.gens[g].done
    /\ call' = [call EXCEPT !.gens = Resumed(g)]
    /\ UNCHANGED <<heap, isavail>>

NextInterleaved ==
    \/ \E self \in InterleavedTargets, smiles \in InterleavedSmiles :
            Start_find_matches(self, smiles)
    \/ \E g \in 1..MaxGenerators : Resume_find_matches(g)
    \/ Discard

SpecInterleaved == InitInterleaved /\ [][NextInterleaved]_vars

---------------------------------------------------------------------------
(* Specification of the database oracle (databases.py): the decision on   *)
(* the prices found, directly and through a collection                     *)

Prices == {NA, Num(1, 0), Num(2, 0), Num(2, 1), Num(3, 0)}

RECURSIVE PriceLists(_)
PriceLists(n) ==
    IF n = 0 THEN {<<>>}
    ELSE LET shorter == PriceLists(n - 1)
         IN  shorter \cup {Append(q, x) : q \in {r \in shorter : Len(r) = n - 1},
                                          x \in Prices}

DatabaseThresholds ==
    {Num(0, 0), Num(1, 0), Num(2, 0), Num(3, 0), Num(MAX_THRESHOLD, 0)}

Databases == {"emolecules", "zinc"}

InitDatabase ==
    /\ heap = [id \in Databases |-> AvailabilityFromDatabase(id, "None", Num(0, 0))]
    /\ isavail = IsAvailable0
    /\ call = NoCall

\* database._availability_from_db_results(prices, pricing_threshold)
Call_availability_from_db_results(prices, pricing_threshold) ==
    /\ call.op = "None"
    /\ call' = [NoCall EXCEPT
                    !.op = "_availability_from_db_results",
                    !.prices = prices, !.pricing_threshold = pricing_threshold,
                    !.value = _availability_from_db_results(prices, pricing_threshold)]
    /\ UNCHANGED <<heap, isavail>>

\* database.availability(smi, pricing_threshold)
Call_availability(database, smi, pricing_threshold) ==
    /\ call.op = "None"
    /\ database \in DOMAIN heap
    /\ call' = [NoCall EXCEPT
                    !.op = "availability", !.self = database, !.smiles = smi,
                    !.prices = query_by_smi(database, smi),
                    !.pricing_threshold = pricing_threshold,
                    !.value = availability(database, smi, pricing_threshold)]
    /\ UNCHANGED <<heap, isavail>>

NextDatabase ==
    \/ \E prices \in PriceLists(MaxPrices), pricing_threshold \in DatabaseThresholds :
            Call_availability_from_db_results(prices, pricing_threshold)
    \/ \E database \in Databases, smi \in {CO, C_O, C},
            pricing_threshold \in DatabaseThresholds :
            Call_availability(database, smi, pricing_threshold)
    \/ Discard

SpecDatabase == InitDatabase /\ [][NextDatabase]_vars

---------------------------------------------------------------------------
(* is_available.py: the IsAvailable orchestrator *)

AVAILABILITY_METADATA ==
    [key \in {"common", "model", "emolecules", "database", "unavailable", "from_file"} |->
        CASE key = "common" -> "Common molecule available by default"
          [] key = "model" -> "Molecule available using a model-specific database"
          [] key = "emolecules" -> "Molecule commercially available on eMolecules.com"
          [] key = "database" -> "Molecule commercially available from a database"
          [] key = "unavailable" -> "Not able to find a synthetic path"
          [] key = "from_file" -> "Molecule from file"]

\* Optional[...] arguments
None == [none |-> TRUE, value |-> <<>>]
Some(v) == [none |-> FALSE, value |-> v]

key_for_source_instance == "smilesavailability_instance"

\* IsAvailable.__init__: the matcher objects it builds, by the name of the
\* attribute that holds them (a database matcher: by its key in from_database)
IsAvailable_heap(pricing_threshold, default_compounds, default_regexes, default_smarts, always_available, model_available, excluded_, avoid_substructure, databases) ==
    [id \in {"from_default_compounds", "from_default_regexes",
             "from_default_smarts", "from_user", "from_model",
             "excluded_compounds", "excluded_substructures"}
            \cup {databases[i] : i \in 1..Len(databases)} |->
        CASE id = "from_default_compounds" -> AvailabilityFromSmiles(default_compounds, "None")
          [] id = "from_default_regexes" -> AvailabilityFromRegex(default_regexes, "None")
          [] id = "from_default_smarts" -> AvailabilityFromSmarts(default_smarts, "None")
          [] id = "from_user" -> AvailabilityFromSmiles(always_available, "None")
          [] id = "from_model" -> AvailabilityFromSmiles(model_available, "None")
          [] id = "excluded_compounds" -> AvailabilityFromSmiles(excluded_, "None")
          [] id = "excluded_substructures" -> AvailabilityFromSmarts(avoid_substructure, "None")
          [] OTHER -> AvailabilityFromDatabase(id, "None", pricing_threshold)]

IsAvailable_init(pricing_threshold, are_materials_exclusive, databases) ==
    [are_materials_exclusive |-> are_materials_exclusive,
     _pricing_threshold |-> pricing_threshold,
     standardization_function |-> "wrapped_standardizer",
     from_database |-> databases]

\* An IsAvailable object has been constructed
Constructed == isavail # IsAvailable0

\* Faulty variant: are_materials_exclusive is not looked at
default_sources_ignores_flag ==
    <<"from_default_compounds", "from_default_regexes", "from_default_smarts",
      "from_user", "from_model">> \o isavail.from_database

\* Faulty variant: the default SMARTS are left out, as in is_expandable
default_sources_without_smarts ==
    <<"from_default_compounds", "from_default_regexes", "from_user">>
    \o (IF ~isavail.are_materials_exclusive
        THEN <<"from_model">> \o isavail.from_database
        ELSE <<>>)

\* Faulty variant: the model and the databases are asked before the common sources
default_sources_model_first ==
    (IF ~isavail.are_materials_exclusive
     THEN <<"from_model">> \o isavail.from_database
     ELSE <<>>)
    \o <<"from_default_compounds", "from_default_regexes", "from_default_smarts",
         "from_user">>

\* The sources of a full availability query (sources is None)
default_sources ==
    <<"from_default_compounds", "from_default_regexes", "from_default_smarts",
      "from_user">>
    \o (IF ~isavail.are_materials_exclusive
        THEN <<"from_model">> \o isavail.from_database
        ELSE <<>>)

\* The exclusion sources of a full availability query (excluded_sources is None)
default_excluded_sources == <<"excluded_compounds", "excluded_substructures">>

\* IsAvailable._get_first_availability_match: the result of first_match on a
\* fresh combiner
_get_first_availability_match(smiles, sources, excluded_sources) ==
    LET srcs == IF sources.none THEN default_sources ELSE sources.value
        excl == IF excluded_sources.none THEN default_excluded_sources
                ELSE excluded_sources.value
        h == heap @@ ("availability_combiner" :>
                        AvailabilityCombiner(srcs, key_for_source_instance, excl,
                                             isavail.standardization_function))
    IN  first_match(h, "availability_combiner", smiles)

\* Faulty variant: every database is given its own key
_source_to_category_own_key(source) ==
    IF source \in {"from_default_compounds", "from_default_regexes",
                   "from_default_smarts", "from_user"}
    THEN [raised |-> FALSE, key |-> "common"]
    ELSE IF source = "from_model"
    THEN [raised |-> FALSE, key |-> "model"]
    ELSE [raised |-> FALSE, key |-> source]

\* Faulty variant: from_default_smarts is missing from the list of common sources
_source_to_category_forgets_smarts(source) ==
    IF source \in {"from_default_compounds", "from_default_regexes", "from_user"}
    THEN [raised |-> FALSE, key |-> "common"]
    ELSE IF source = "from_model"
    THEN [raised |-> FALSE, key |-> "model"]
    ELSE IF \E i \in 1..Len(isavail.from_database) : isavail.from_database[i] = source
    THEN [raised |-> FALSE,
          key |-> IF source = "emolecules" THEN source ELSE "database"]
    ELSE [raised |-> TRUE, key |-> "None"]

\* IsAvailable._source_to_category: the key, or the ValueError
_source_to_category(source) ==
    IF source \in {"from_default_compounds", "from_default_regexes",
                   "from_default_smarts", "from_user"}
    THEN [raised |-> FALSE, key |-> "common"]
    ELSE IF source = "from_model"
    THEN [raised |-> FALSE, key |-> "model"]
    ELSE IF \E i \in 1..Len(isavail.from_database) : isavail.from_database[i] = source
    THEN [raised |-> FALSE,
          key |-> IF source = "emolecules" THEN source ELSE "database"]
    ELSE [raised |-> TRUE, key |-> "None"]

\* match.info[self.key_for_source_instance]
SourceOf(match) ==
    LET kv == SelectSeq(match.info, LAMBDA x : x[1] = key_for_source_instance)
    IN  kv[1][2]

\* IsAvailable.__call__
__call__(smiles) ==
    LET r == _get_first_availability_match(smiles, None, None)
    IN  /\ call.op = "None"
        /\ Constructed
        /\ call' = [NoCall EXCEPT !.op = "__call__", !.self = "IsAvailable",
                                  !.smiles = smiles, !.log = r.log,
                                  !.value = (r.value # <<>>)]
        /\ UNCHANGED <<heap, isavail>>

\* IsAvailable.get_availability_metadata
get_availability_metadata(smiles) ==
    LET r == _get_first_availability_match(smiles, None, None)
        c == IF r.value = <<>> THEN [raised |-> FALSE, key |-> "unavailable"]
             ELSE _source_to_category(SourceOf(r.value[1]))
    IN  /\ call.op = "None"
        /\ Constructed
        /\ call' = [NoCall EXCEPT !.op = "get_availability_metadata",
                                  !.self = "IsAvailable",
                                  !.smiles = smiles, !.log = r.log,
                                  !.raised = c.raised
                                             \/ c.key \notin DOMAIN AVAILABILITY_METADATA,
                                  !.category = c.key]
        /\ UNCHANGED <<heap, isavail>>

\* Faulty variant: is_expandable runs on the first four sources of the full query
is_expandable_with_smarts(smiles) ==
    LET sources == <<"from_default_compounds", "from_default_regexes",
                     "from_default_smarts", "from_user">>
        r == _get_first_availability_match(smiles, Some(sources), Some(<<>>))
    IN  /\ call.op = "None"
        /\ Constructed
        /\ call' = [NoCall EXCEPT !.op = "is_expandable", !.self = "IsAvailable",
                                  !.smiles = smiles, !.log = r.log,
                                  !.value = (r.value = <<>>)]
        /\ UNCHANGED <<heap, isavail>>

\* IsAvailable.is_expandable
is_expandable(smiles) ==
    LET sources == <<"from_default_compounds", "from_default_regexes", "from_user">>
        r == _get_first_availability_match(smiles, Some(sources), Some(<<>>))
    IN  /\ call.op = "None"
        /\ Constructed
        /\ call' = [NoCall EXCEPT !.op = "is_expandable", !.self = "IsAvailable",
                                  !.smiles = smiles, !.log = r.log,
                                  !.value = (r.value = <<>>)]
        /\ UNCHANGED <<heap, isavail>>

\* What is_expandable obtains from _get_first_availability_match
is_expandable_match(smiles) ==
    _get_first_availability_match(
        smiles,
        Some(<<"from_default_compounds", "from_default_regexes", "from_user">>),
        Some(<<>>))

\* IsAvailable.pricing_threshold (setter)
pricing_threshold_setter(value) ==
    /\ call.op = "None"
    /\ Constructed
    /\ isavail' = [isavail EXCEPT !._pricing_threshold = value]
    /\ heap' = [id \in DOMAIN heap |->
                   IF \E i \in 1..Len(isavail.from_database) :
                          isavail.from_database[i] = id
                   THEN [heap[id] EXCEPT !.pricing_threshold = value]
                   ELSE heap[id]]
    /\ call' = [NoCall EXCEPT !.op = "pricing_threshold.setter",
                              !.self = "IsAvailable"]

---------------------------------------------------------------------------
(* Specification of the orchestrator *)

QuerySmiles == {CO, OC, CtO, invalid}

Thresholds == {Num(0, 0), Num(2, 1), Num(MAX_THRESHOLD, 0)}

DatabaseConfigs ==
    {<<>>, <<"emolecules">>, <<"zinc">>, <<"emolecules", "zinc">>,
     <<"zinc", "emolecules">>}

InitIsAvailable ==
    /\ \E pricing_threshold \in Thresholds,
          are_materials_exclusive \in BOOLEAN,
          databases \in DatabaseConfigs,
          default_compounds \in {{}, {CO}},
          default_regexes \in {<<>>, <<<<"O">>>>},
          default_smarts \in {<<>>, <<<<"O">>>>},
          always_available \in {{}, {CO, C_O}},
          model_available \in {{}, {CO}},
          excluded_ \in {{}, {CO}},
          avoid_substructure \in {<<>>, <<<<"O">>>>} :
            /\ heap = IsAvailable_heap(pricing_threshold, default_compounds,
                                       default_regexes, default_smarts,
                                       always_available, model_available,
                                       excluded_, avoid_substructure, databases)
            /\ isavail = IsAvailable_init(pricing_threshold,
                                          are_materials_exclusive, databases)
    /\ call = NoCall

NextIsAvailable ==
    \/ \E smiles \in QuerySmiles : __call__(smiles)
    \/ \E smiles \in QuerySmiles : get_availability_metadata(smiles)
    \/ \E smiles \in QuerySmiles : is_expandable(smiles)
    \/ \E value \in Thresholds : pricing_threshold_setter(value)
    \/ Discard

SpecIsAvailable == InitIsAvailable /\ [][NextIsAvailable]_vars

---------------------------------------------------------------------------
(* Both: a program that uses the matcher library or the orchestrator *)

Init == InitCombiner \/ InitIsAvailable

Next == NextCombiner \/ NextIsAvailable

Spec == Init /\ [][Next]_vars

---------------------------------------------------------------------------
(* Properties of the matcher library *)

\* The standardization the called matcher applies to the caller's SMILES
StdOfCall ==
    IF call.op = "None" \/ heap[call.self].standardizer = "None"
    THEN [ok |-> TRUE, value |-> call.smiles]
    ELSE standardizer(heap[call.self].standardizer, call.smiles)

OnCombiner == call.op # "None" /\ call.self = "combined"

\* Some exclusion predicate of the combiner is true for the standardized SMILES
SomeExclusionTrue ==
    \E k \in 1..Len(heap["combined"].excluded_sources) :
        excluded(heap, heap["combined"].excluded_sources[k], StdOfCall.value).value

\* The inclusion sources (by position) that match the standardized SMILES
MatchingSources ==
    {j \in 1..Len(heap["combined"].sources) :
        is_available(heap, heap["combined"].sources[j], StdOfCall.value).value}

\* C1: on a combiner whose standardization of I succeeds, if some exclusion
\* predicate is true for the standardized I then find_matches(I) yields no
\* record, is_available(I) is false and first_match(I) is None, whatever the
\* inclusion sources would match.
C1_ExclusionPrecedence ==
    (OnCombiner /\ StdOfCall.ok /\ SomeExclusionTrue) =>
        /\ call.out = <<>>
        /\ call.value = FALSE
        /\ \A p \in 1..Len(call.log) : ~IsYield(call.log[p])

C1_Witness ==
    /\ OnCombiner /\ StdOfCall.ok /\ SomeExclusionTrue
    /\ MatchingSources # {}
    /\ call.op = "find_matches" /\ call.done

\* The first matching source, in list order
EarliestMatching == CHOOSE j \in MatchingSources : \A i \in MatchingSources : j <= i

\* The record the source at position j hands to the combiner first, as the
\* combiner passes it on
FirstRecordOf(j) ==
    LET source == heap["combined"].sources[j]
        key == heap["combined"].add_source_to_match_info_key
        m == first_match(heap, source, StdOfCall.value).value[1]
    IN  IF key = "None" THEN m ELSE SetInfo(m, key, source)

\* C2: with no exclusion firing, first_match on a combiner returns the match of
\* the earliest source in list order that matches, and no source after that one
\* is queried during first_match or is_available.
C2_PriorityOrder ==
    (/\ OnCombiner /\ call.op \in {"first_match", "is_available"}
     /\ StdOfCall.ok /\ ~SomeExclusionTrue /\ MatchingSources # {}) =>
        /\ call.op = "first_match" => call.out = <<FirstRecordOf(EarliestMatching)>>
        /\ call.op = "is_available" => call.value
        /\ \A p \in 1..Len(call.log) :
              /\ call.log[p].ev = "find_matches" => call.log[p].k <= EarliestMatching
              /\ \A j \in 1..Len(heap["combined"].sources) :
                    j > EarliestMatching =>
                        call.log[p].who # heap["combined"].sources[j]

C2_Witness ==
    /\ OnCombiner /\ call.op = "first_match"
    /\ StdOfCall.ok /\ ~SomeExclusionTrue
    /\ Len(heap["combined"].sources) = 2
    /\ MatchingSources = {1, 2}

\* C3: when an inclusion source's find_matches is invoked by a combiner, every
\* entry of excluded_sources has already been evaluated in the same query.
C3_ExclusionBeforeInclusion ==
    OnCombiner =>
        \A p \in 1..Len(call.log) :
            call.log[p].ev = "find_matches" =>
                \A k \in 1..Len(heap["combined"].excluded_sources) :
                    \E q \in 1..(p - 1) :
                        /\ call.log[q].ev = "excluded"
                        /\ call.log[q].k = k

C3_Witness ==
    /\ OnCombiner
    /\ Len(heap["combined"].excluded_sources) = 2
    /\ \E p \in 1..Len(call.log) : call.log[p].ev = "find_matches"

\* C5: is_available is true iff find_matches yields a record iff first_match
\* is not None; first_match is the first record of find_matches; and neither
\* runs the generator past its first yield.
C5_FirstMatchAndAny ==
    (call.op \in {"first_match", "is_available"} /\ call.self \in CombinerTargets) =>
        LET all == Matches(find_matches(heap, call.self, call.smiles))
        IN  /\ call.op = "is_available" =>
                /\ call.value = (Len(all) > 0)
                /\ call.value = (first_match(heap, call.self, call.smiles).value # <<>>)
            /\ call.op = "first_match" =>
                call.out = IF Len(all) = 0 THEN <<>> ELSE <<all[1]>>
            /\ \A p \in 1..Len(call.log) : IsYield(call.log[p]) => p = Len(call.log)

C5_Witness ==
    /\ call.op = "is_available" /\ call.self = "regex" /\ call.value
    /\ Len(Matches(find_matches(heap, call.self, call.smiles))) = 2

\* C4: when the standardizer of the called matcher fails on I, nothing is
\* yielded, is_available is false, first_match is None, no exception reaches
\* the caller, and nothing but the standardizer ran: no matching step, no
\* exclusion predicate, no child source.  The orchestrator reports I as
\* unavailable.
StandardizerFails ==
    /\ call.op \in {"is_available", "first_match", "find_matches", "__call__",
                    "get_availability_metadata", "is_expandable"}
    /\ IF call.self = "IsAvailable"
       THEN ~wrapped_standardizer(call.smiles).ok
       ELSE /\ heap[call.self].standardizer # "None"
            /\ ~standardizer(heap[call.self].standardizer, call.smiles).ok

C4_StandardizationFailure ==
    StandardizerFails =>
        /\ call.out = <<>>
        /\ ~call.raised
        /\ call.op \in {"is_available", "__call__"} => call.value = FALSE
        /\ call.op = "get_availability_metadata" => call.category = "unavailable"
        /\ Len(call.log) <= 1
        /\ \A p \in 1..Len(call.log) : call.log[p].ev = "standardizer"
        /\ (call.op = "find_matches" /\ call.log # <<>>) => call.done

C4_Witness ==
    /\ StandardizerFails
    /\ call.self = "combined" /\ call.op = "find_matches" /\ call.done
    /\ Len(heap["combined"].sources) = 2
    /\ Len(heap["combined"].excluded_sources) = 2

---------------------------------------------------------------------------
(* Properties of the orchestrator *)

OnIsAvailable == call.op # "None" /\ call.self = "IsAvailable"

\* The standardized form of the SMILES of the call (IsAvailable applies the
\* tilde substitution, then the standardization function)
StdI == wrapped_standardizer(call.smiles)

\* The matcher held under that name matches the standardized SMILES
MatchedBy(id) == StdI.ok /\ is_available(heap, id, StdI.value).value

IsExcluded == MatchedBy("excluded_compounds") \/ MatchedBy("excluded_substructures")

CommonSources ==
    <<"from_default_compounds", "from_default_regexes", "from_default_smarts",
      "from_user">>

\* The priority list the claims state, for the flag of the object
PriorityList ==
    IF isavail.are_materials_exclusive THEN CommonSources
    ELSE CommonSources \o <<"from_model">> \o isavail.from_database

\* The sources a call queried, in the order of their find_matches
QueriedSources ==
    LET q == SelectSeq(call.log, LAMBDA st : st.ev = "find_matches")
    IN  [i \in 1..Len(q) |-> q[i].who]

IsPrefix(a, b) == Len(a) <= Len(b) /\ \A i \in 1..Len(a) : a[i] = b[i]

FullQuery == OnIsAvailable /\ call.op \in {"__call__", "get_availability_metadata"}

\* C6: in a full availability query the sources are queried along
\* [default compounds, default regexes, default SMARTS, user compounds] when
\* are_materials_exclusive is true, and along that list followed by the model
\* compounds and every database matcher otherwise; an exclusive query never
\* queries the model or a database matcher, and reports unavailable what only
\* they match.
C6_SourceList ==
    FullQuery =>
        /\ IsPrefix(QueriedSources, PriorityList)
        /\ (StdI.ok /\ ~IsExcluded
              /\ \A i \in 1..Len(PriorityList) : ~MatchedBy(PriorityList[i]))
            => QueriedSources = PriorityList
        /\ isavail.are_materials_exclusive =>
              /\ \A p \in 1..Len(call.log) :
                    /\ call.log[p].who # "from_model"
                    /\ \A i \in 1..Len(isavail.from_database) :
                          call.log[p].who # isavail.from_database[i]
              /\ (\A i \in 1..4 : ~MatchedBy(CommonSources[i])) =>
                    /\ call.value = FALSE
                    /\ call.op = "get_availability_metadata" =>
                          call.category = "unavailable"

C6_Witness ==
    /\ FullQuery /\ call.op = "__call__"
    /\ isavail.are_materials_exclusive
    /\ StdI.ok /\ ~IsExcluded
    /\ MatchedBy("from_model")
    /\ Len(isavail.from_database) = 2
    /\ \E i \in 1..2 : MatchedBy(isavail.from_database[i])
    /\ call.value = FALSE

\* C7: is_expandable(I) is true iff the standardized I is matched by none of
\* the default compounds, the default regexes and the user compounds (an I
\* that has no standardized form is matched by none); no other source and no
\* exclusion source is queried.
C7_Expandable ==
    (OnIsAvailable /\ call.op = "is_expandable") =>
        /\ call.value = ~(\/ MatchedBy("from_default_compounds")
                          \/ MatchedBy("from_default_regexes")
                          \/ MatchedBy("from_user"))
        /\ \A p \in 1..Len(call.log) :
              /\ call.log[p].ev # "excluded"
              /\ call.log[p].who \notin {"from_default_smarts", "from_model",
                                         "excluded_compounds",
                                         "excluded_substructures"}
              /\ \A i \in 1..Len(isavail.from_database) :
                    call.log[p].who # isavail.from_database[i]

C7_Witness ==
    /\ OnIsAvailable /\ call.op = "is_expandable" /\ call.value
    /\ MatchedBy("from_default_smarts") /\ MatchedBy("from_model")
    /\ MatchedBy("excluded_compounds")
    /\ ~isavail.are_materials_exclusive
    /\ \E i \in 1..Len(isavail.from_database) : MatchedBy(isavail.from_database[i])

\* Among the inclusion sources only a default SMARTS matches
OnlyDefaultSmarts ==
    /\ MatchedBy("from_default_smarts")
    /\ ~MatchedBy("from_default_compounds")
    /\ ~MatchedBy("from_default_regexes")
    /\ ~MatchedBy("from_user")
    /\ ~MatchedBy("from_model")
    /\ \A i \in 1..Len(isavail.from_database) : ~MatchedBy(isavail.from_database[i])

\* C8 as stated: for every configuration, an I that among the inclusion
\* sources matches only a default SMARTS is expandable and is available.
C8_Original ==
    (OnIsAvailable /\ OnlyDefaultSmarts) =>
        /\ call.op = "is_expandable" => call.value
        /\ call.op = "__call__" => call.value

\* C8 (amended): an I that among the inclusion sources matches only a default
\* SMARTS, and that neither the excluded compounds nor the excluded
\* substructures match, is expandable and is available.
C8_SmartsOnly ==
    (OnIsAvailable /\ OnlyDefaultSmarts /\ ~IsExcluded) =>
        /\ call.op = "is_expandable" => call.value
        /\ call.op = "__call__" => call.value

C8_Witness ==
    /\ OnIsAvailable /\ OnlyDefaultSmarts /\ ~IsExcluded
    /\ call.op = "__call__" /\ call.value
    /\ heap["excluded_compounds"].available_compounds # {}

\* The category of a source, as the claim states it
CategoryOf(id) ==
    CASE id \in {"from_default_compounds", "from_default_regexes",
                 "from_default_smarts", "from_user"} -> "common"
      [] id = "from_model" -> "model"
      [] id = "emolecules" -> "emolecules"
      [] OTHER -> "database"

\* The positions of the priority list whose source matches
MatchingPriorities == {i \in 1..Len(PriorityList) : MatchedBy(PriorityList[i])}

IsAvailableI == StdI.ok /\ ~IsExcluded /\ MatchingPriorities # {}

\* C9: get_availability_metadata returns the metadata of one category:
\* 'unavailable' when the full query has no match (also when I is excluded),
\* otherwise the category of the earliest matching source in priority order;
\* it is not 'unavailable' iff __call__ returns true.
C9_Category ==
    /\ (OnIsAvailable /\ call.op = "get_availability_metadata") =>
          /\ ~call.raised
          /\ call.category \in DOMAIN AVAILABILITY_METADATA
          /\ call.category =
                IF ~IsAvailableI THEN "unavailable"
                ELSE CategoryOf(PriorityList[
                        CHOOSE i \in MatchingPriorities :
                            \A j \in MatchingPriorities : i <= j])
          /\ (call.category # "unavailable") = IsAvailableI
    /\ (OnIsAvailable /\ call.op = "__call__") => call.value = IsAvailableI

C9_Witness ==
    /\ OnIsAvailable /\ call.op = "get_availability_metadata"
    /\ call.category = "database"
    /\ isavail.from_database = <<"zinc", "emolecules">>
    /\ MatchedBy("emolecules")

\* C10 as stated: every database matcher holds the pricing threshold of the
\* orchestrator, after construction and after every setter call and query.
C10_ThresholdPropagated ==
    Constructed =>
        \A i \in 1..Len(isavail.from_database) :
            heap[isavail.from_database[i]].pricing_threshold
                = isavail._pricing_threshold

---------------------------------------------------------------------------
(* Properties of the database oracle *)

OnDatabase == call.op \in {"_availability_from_db_results", "availability"}

\* Some numeric price of the call is strictly below its threshold
SomeNumericPriceBelow ==
    \E i \in 1..Len(call.prices) :
        call.prices[i].num /\ NumLT(call.prices[i], call.pricing_threshold)

\* C11: the decision of the database on a list of prices and a threshold is
\* false if nothing was found; otherwise true if the threshold is 0 or 1000,
\* whatever the prices; otherwise true iff some numeric price is strictly
\* below the threshold, the non-numeric ones being ignored (false when no
\* numeric price is left).
C11_ThresholdSemantics ==
    OnDatabase =>
        call.value =
            IF Len(call.prices) = 0 THEN FALSE
            ELSE IF call.pricing_threshold \in {Num(0, 0), Num(MAX_THRESHOLD, 0)}
            THEN TRUE
            ELSE SomeNumericPriceBelow

C11_Witness ==
    /\ call.op = "_availability_from_db_results"
    /\ call.pricing_threshold = Num(3, 0)
    /\ call.prices = <<NA, Num(3, 0), Num(2, 1)>>
    /\ call.value

---------------------------------------------------------------------------
(* Properties of the pattern-list matchers *)

OnPatternList ==
    /\ call.op = "find_matches"
    /\ call.self \in DOMAIN heap
    /\ heap[call.self].cls \in {"AvailabilityFromRegex", "AvailabilityFromSmarts"}

\* The patterns of the called matcher that match the standardized SMILES, in
\* the order of its list (none when a SMARTS matcher cannot parse the SMILES)
MatchingPatterns ==
    LET m == heap[call.self]
        smiles == StdOfCall.value
    IN  IF m.cls = "AvailabilityFromRegex"
        THEN SelectSeq(m.available_regexes, LAMBDA pattern : search(pattern, smiles))
        ELSE IF ~MolFromSmiles(smiles) THEN <<>>
        ELSE SelectSeq(m.available_smarts,
                       LAMBDA smarts : HasSubstructMatch(smiles, smarts))

\* The record that names a pattern
RecordOfPattern(pattern) ==
    AvailabilityMatch(<<IF heap[call.self].cls = "AvailabilityFromRegex"
                        THEN "Matching regex" ELSE "Matching SMARTS", pattern>>)

\* C12: a regex or SMARTS matcher yields one record per pattern of its list
\* that matches the standardized SMILES, in list order, each naming its
\* pattern: as many records as matching patterns, none when no pattern
\* matches or when the SMARTS matcher cannot parse the SMILES.
C12_OneRecordPerPattern ==
    (OnPatternList /\ StdOfCall.ok) =>
        /\ Len(call.out) <= Len(MatchingPatterns)
        /\ \A i \in 1..Len(call.out) :
              call.out[i] = RecordOfPattern(MatchingPatterns[i])
        /\ call.done => Len(call.out) = Len(MatchingPatterns)

C12_Witness ==
    /\ OnPatternList /\ call.done
    /\ heap[call.self].cls = "AvailabilityFromRegex"
    /\ Len(heap[call.self].available_regexes) = 2
    /\ Len(call.out) = 2

---------------------------------------------------------------------------
(* Properties of the combiner's enumeration *)

\* The value under a key of a match's info (<<>> when the key is absent)
InfoAt(match, key) ==
    LET kv == SelectSeq(match.info, LAMBDA x : x[1] = key)
    IN  IF kv = <<>> THEN <<>> ELSE <<kv[1][2]>>

\* The matches each source yields for the standardized SMILES when queried
\* alone, paired with the position of the source, from position j on
RECURSIVE MatchesOfSources(_)
MatchesOfSources(j) ==
    IF j > Len(heap["combined"].sources) THEN <<>>
    ELSE LET own == Matches(find_matches(heap, heap["combined"].sources[j],
                                         StdOfCall.value))
         IN  [i \in 1..Len(own) |-> [j |-> j, match |-> own[i]]]
             \o MatchesOfSources(j + 1)

\* C13: when no exclusion fires, find_matches on a combiner yields all matches
\* of its first source, then all of the second, and so on; when
\* add_source_to_match_info_key is set, every record carries under that key
\* the source that produced it (and is otherwise the source's record).
C13_Concatenation ==
    (OnCombiner /\ call.op = "find_matches" /\ StdOfCall.ok /\ ~SomeExclusionTrue) =>
        LET all == MatchesOfSources(1)
            key == heap["combined"].add_source_to_match_info_key
        IN  /\ Len(call.out) <= Len(all)
            /\ call.done => Len(call.out) = Len(all)
            /\ \A i \in 1..Len(call.out) :
                  /\ call.out[i].details = all[i].match.details
                  /\ IF key = "None" THEN call.out[i].info = all[i].match.info
                     ELSE /\ InfoAt(call.out[i], key)
                                = <<heap["combined"].sources[all[i].j]>>
                          /\ \A n \in 1..Len(all[i].match.info) :
                                all[i].match.info[n][1] # key =>
                                    InfoAt(call.out[i], all[i].match.info[n][1])
                                        = <<all[i].match.info[n][2]>>

C13_Witness ==
    /\ OnCombiner /\ call.op = "find_matches" /\ call.done
    /\ StdOfCall.ok /\ ~SomeExclusionTrue
    /\ heap["combined"].add_source_to_match_info_key = "dummy_key"
    /\ heap["combined"].sources = <<"inner", "regex">>
    /\ Len(call.out) = 4

---------------------------------------------------------------------------
(* Properties of interleaved queries *)

\* What the generator's query yields when it is consumed alone
AloneMatches(gen) == Matches(find_matches(heap, gen.self, gen.smiles))

\* Every generator alive has handed out the first records of its query
\* consumed alone, and all of them once it is exhausted
AsWhenAlone ==
    \A g \in 1..Len(call.gens) :
        LET gen == call.gens[g]
            alone == AloneMatches(gen)
        IN  /\ Len(gen.out) <= Len(alone)
            /\ \A i \in 1..Len(gen.out) : gen.out[i] = alone[i]
            /\ gen.done => Len(gen.out) = Len(alone)

\* C14: with a fixed configuration, find_matches generators on the same or on
\* different matchers, for the same or for different SMILES, consumed in any
\* interleaving, each yield the records they yield when consumed alone, and
\* no step of a query changes a field of any matcher.
C14_NoPerQueryState ==
    /\ []AsWhenAlone
    /\ [][call.op = "generators" => heap' = heap]_vars

C14_Witness ==
    /\ call.op = "generators" /\ Len(call.gens) = 2
    /\ call.gens[1].self = "combined" /\ call.gens[2].self = "combined"
    /\ call.gens[1].smiles # call.gens[2].smiles
    /\ call.gens[1].interleaved /\ call.gens[2].interleaved
    /\ call.gens[1].done /\ call.gens[2].done
    /\ Len(call.gens[1].out) >= 2 /\ Len(call.gens[2].out) >= 2

---------------------------------------------------------------------------
(* Properties of the exclusion gate *)

\* The positions of excluded_sources whose predicate is true
TrueExclusions ==
    {k \in 1..Len(heap["combined"].excluded_sources) :
        excluded(heap, heap["combined"].excluded_sources[k], StdOfCall.value).value}

FirstTrueExclusion == CHOOSE k \in TrueExclusions : \A i \in TrueExclusions : k <= i

\* The exclusion predicates a call invoked, in the order of their invocation
InvokedExclusions == SelectSeq(call.log, LAMBDA st : st.ev = "excluded")

\* The body of the queried generator has run
HasRun == call.op \in {"is_available", "first_match"} \/ call.log # <<>>

\* C15: a combiner evaluates its exclusion predicates in list order and stops
\* at the first that is true: when the k-th is the first true one for the
\* standardized SMILES, the predicates 1..k are each invoked once, in that
\* order, none after the k-th is invoked, and no source is invoked.
C15_ShortCircuit ==
    (OnCombiner /\ HasRun /\ StdOfCall.ok /\ TrueExclusions # {}) =>
        /\ Len(InvokedExclusions) = FirstTrueExclusion
        /\ \A i \in 1..Len(InvokedExclusions) :
              /\ InvokedExclusions[i].k = i
              /\ InvokedExclusions[i].who = heap["combined"].excluded_sources[i]
        /\ \A p \in 1..Len(call.log) : call.log[p].ev # "find_matches"

C15_Witness ==
    /\ OnCombiner /\ HasRun /\ StdOfCall.ok
    /\ Len(heap["combined"].excluded_sources) = 2
    /\ TrueExclusions = {1, 2}
    /\ Len(InvokedExclusions) = 1
    /\ MatchingSources # {}

---------------------------------------------------------------------------
(* Properties of the category mapping *)

\* The provenances of the records a query of the orchestrator obtained
Provenances ==
    {SourceOf(call.log[p].match[1]) : p \in {q \in 1..Len(call.log) : IsYield(call.log[q])}}

\* C16: get_availability_metadata never raises the unknown-matcher error:
\* every source of a full query, hence every provenance of a first match, is
\* mapped by _source_to_category to a key of AVAILABILITY_METADATA.
C16_NoUnknownMatcher ==
    Constructed =>
        /\ \A i \in 1..Len(default_sources) :
              /\ ~_source_to_category(default_sources[i]).raised
              /\ _source_to_category(default_sources[i]).key
                    \in DOMAIN AVAILABILITY_METADATA
        /\ FullQuery =>
              \A source \in Provenances :
                  \E i \in 1..Len(default_sources) : default_sources[i] = source
        /\ call.op = "get_availability_metadata" =>
              /\ ~call.raised
              /\ call.category \in DOMAIN AVAILABILITY_METADATA

C16_Witness ==
    /\ OnIsAvailable /\ call.op = "get_availability_metadata"
    /\ Provenances = {"zinc"}
    /\ isavail.from_database = <<"emolecules", "zinc">>
    /\ call.category = "database" /\ ~call.raised

---------------------------------------------------------------------------
(* Properties relating the three queries of the orchestrator on one SMILES *)

\* The results of the three queries for the SMILES of the call
ExpandableI == is_expandable_match(call.smiles).value = <<>>
AvailableI == _get_first_availability_match(call.smiles, None, None).value # <<>>
CategoryI ==
    LET r == _get_first_availability_match(call.smiles, None, None)
    IN  IF r.value = <<>> THEN "unavailable"
        ELSE _source_to_category(SourceOf(r.value[1])).key

\* The call in the state returned what the query returns for its SMILES
ObservedAsComputed ==
    /\ call.op = "is_expandable" => call.value = ExpandableI
    /\ call.op = "__call__" => call.value = AvailableI
    /\ call.op = "get_availability_metadata" => call.category = CategoryI

\* C17: if is_expandable(I) is false and neither the excluded compounds nor
\* the excluded substructures match I, then __call__(I) is true and
\* get_availability_metadata(I) is the 'common' category, for both values of
\* are_materials_exclusive; and an I that is in the default or in the user
\* compounds and is excluded is neither available nor expandable.
C17_NotExpandable ==
    OnIsAvailable =>
        /\ ObservedAsComputed
        /\ (~ExpandableI /\ ~IsExcluded) => (AvailableI /\ CategoryI = "common")
        /\ ((MatchedBy("from_default_compounds") \/ MatchedBy("from_user"))
              /\ IsExcluded)
            => (~AvailableI /\ ~ExpandableI)

C17_Witness ==
    /\ OnIsAvailable /\ call.op = "get_availability_metadata"
    /\ ~ExpandableI /\ ~IsExcluded
    /\ ~isavail.are_materials_exclusive
    /\ MatchedBy("from_model") /\ MatchedBy("from_user")
    /\ ~MatchedBy("from_default_compounds") /\ ~MatchedBy("from_default_regexes")
    /\ call.category = "common"

---------------------------------------------------------------------------
(* Properties relating two orchestrators that differ in are_materials_exclusive *)

\* The source list of a full query of the orchestrator with that flag
SourcesUnder(are_materials_exclusive) ==
    IF are_materials_exclusive THEN CommonSources
    ELSE CommonSources \o <<"from_model">> \o isavail.from_database

\* The full query of the orchestrator with that flag, all else being equal
FullQueryUnder(are_materials_exclusive) ==
    _get_first_availability_match(
        call.smiles, Some(SourcesUnder(are_materials_exclusive)), None)

CategoryUnder(are_materials_exclusive) ==
    LET r == FullQueryUnder(are_materials_exclusive)
    IN  IF r.value = <<>> THEN "unavailable"
        ELSE _source_to_category(SourceOf(r.value[1])).key

\* The orchestrator of the state is the one of the two that has its flag
OwnQueryIsTheTwins ==
    /\ default_sources = SourcesUnder(isavail.are_materials_exclusive)
    /\ FullQuery =>
          /\ call.log = FullQueryUnder(isavail.are_materials_exclusive).log
          /\ call.op = "__call__" =>
                call.value = (FullQueryUnder(isavail.are_materials_exclusive).value # <<>>)
          /\ call.op = "get_availability_metadata" =>
                call.category = CategoryUnder(isavail.are_materials_exclusive)

\* C18: of two orchestrators that differ only in are_materials_exclusive, if
\* the exclusive one reports I available then the other one reports I
\* available too, both with the category 'common', and the query of the
\* non-exclusive one invokes neither the model compounds nor a database; the
\* exclusive source list is a prefix of the full one.
C18_Monotone ==
    OnIsAvailable =>
        /\ OwnQueryIsTheTwins
        /\ IsPrefix(SourcesUnder(TRUE), SourcesUnder(FALSE))
        /\ FullQueryUnder(TRUE).value # <<>> =>
              /\ FullQueryUnder(FALSE).value # <<>>
              /\ CategoryUnder(TRUE) = "common"
              /\ CategoryUnder(FALSE) = "common"
              /\ \A p \in 1..Len(FullQueryUnder(FALSE).log) :
                    /\ FullQueryUnder(FALSE).log[p].who # "from_model"
                    /\ \A i \in 1..Len(isavail.from_database) :
                          FullQueryUnder(FALSE).log[p].who # isavail.from_database[i]

C18_Witness ==
    /\ FullQuery /\ call.op = "get_availability_metadata"
    /\ ~isavail.are_materials_exclusive
    /\ FullQueryUnder(TRUE).value # <<>>
    /\ MatchedBy("from_model")
    /\ Len(isavail.from_database) = 2
    /\ \A i \in 1..2 : MatchedBy(isavail.from_database[i])
    /\ call.category = "common"

---------------------------------------------------------------------------
(* Properties of an exclusion matcher whose own standardizer fails *)

\* The k-th exclusion source is a matcher whose standardizer raises on the
\* SMILES the combiner hands to it
StandardizerFailsAt(k) ==
    LET ex == heap["combined"].excluded_sources[k]
    IN  /\ heap[ex].cls # "function"
        /\ heap[ex].standardizer # "None"
        /\ ~standardizer(heap[ex].standardizer, StdOfCall.value).ok

\* The rules of the k-th exclusion source match the SMILES handed to it
RulesMatchAt(k) ==
    LET ex == heap["combined"].excluded_sources[k]
    IN  is_available([heap EXCEPT ![ex].standardizer = "None"], ex,
                     StdOfCall.value).value

\* C19: an exclusion source that is a matcher with its own standardizer fails
\* open: when that standardizer raises on the SMILES handed over by the
\* combiner, the source evaluates to false and nothing is raised, its rules
\* are not consulted, and the combiner goes on to the remaining exclusion
\* predicates and, if none is true, to its sources, whose matches it reports.
C19_FailsOpen ==
    (OnCombiner /\ HasRun /\ StdOfCall.ok) =>
        \A k \in 1..Len(heap["combined"].excluded_sources) :
            StandardizerFailsAt(k) =>
                LET ex == heap["combined"].excluded_sources[k]
                IN  /\ ~excluded(heap, ex, StdOfCall.value).value
                    /\ ~call.raised
                    /\ \A p \in 1..Len(call.log) :
                          (call.log[p].ev = "excluded" /\ call.log[p].k = k) =>
                              /\ p + 1 <= Len(call.log)
                              /\ call.log[p + 1] = Step("standardizer", ex, 0)
                              /\ p + 2 <= Len(call.log) => call.log[p + 2].who # ex
                    /\ TrueExclusions = {} =>
                          /\ Len(InvokedExclusions)
                                = Len(heap["combined"].excluded_sources)
                          /\ heap["combined"].sources # <<>> =>
                                \E p \in 1..Len(call.log) : call.log[p].ev = "find_matches"
                          /\ call.op = "is_available" =>
                                call.value = (MatchingSources # {})
                          /\ call.op = "first_match" =>
                                (call.out # <<>>) = (MatchingSources # {})

C19_Witness ==
    /\ OnCombiner /\ call.op = "is_available" /\ call.value
    /\ Len(heap["combined"].excluded_sources) = 2
    /\ StandardizerFailsAt(1) /\ RulesMatchAt(1)

====
